---- MODULE Spec2Model ----
(***************************************************************************)
(* Model of algorithm/introAlgorithm/c++-implmentation/chap.2/merge_sort.cc *)
(*                                                                         *)
(* The program state is the vector A, the call stack of merge_sort /       *)
(* merge_sort_lazy / merge / merge_lazy activations, and the locals of the *)
(* running merge (L, R, i, j, k).  Indices are the 0-based size_t indices  *)
(* of the source; the TLA+ sequence element S[n+1] is the C++ element S[n].*)
(* A driver, like main(), makes a sequence of calls on an input A0:        *)
(*   runs 1 and 2: the sentinel variant (merge_sort or merge) and the lazy *)
(*                 variant (merge_sort_lazy or merge_lazy), each on A0, in *)
(*                 either order,                                           *)
(*   run 3: the sentinel variant once more on its own result.              *)
(* Reads and writes outside a vector's elements are undefined behaviour:   *)
(* each one either faults (phase = "crashed") or, within Slack elements of *)
(* the end of the storage, goes undetected (a read yields any of UBVals,   *)
(* a write lands outside the vector and leaves its elements alone).        *)
(***************************************************************************)
EXTENDS Integers, Sequences, FiniteSets

\* ---- bounds of the model ------------------------------------------------
MaxLen == 4
\* size_t is modelled with SizeBits bits (SIZE_MAX = 2^SizeBits - 1)
SizeBits == 3
\* how many elements past the end of a vector's storage an access can go
\* without faulting
Slack == 1

\* ---- program constants --------------------------------------------------
INT_MAX == 2147483647

SizeMod == 2 ^ SizeBits
\* element values the inputs are drawn from (INT_MAX is a legal int)
Vals == {1, 2, INT_MAX}
\* values an undetected out-of-bounds read can yield
UBVals == {0, INT_MAX}

VARIABLES
    A0,       \* the driver's input vector (never changes)
    entry,    \* the driver's call: [kind, first, p, q, r]
    run,      \* which of the driver's calls is current (1..3)
    phase,    \* "call", "running", "done", "crashed"
    A,        \* the vector<int> the current call works on
    src,      \* ghost: src[n] is the position in the run's input that the
              \* element now at A[n] was copied from (0: sentinel / garbage)
    stack,    \* call stack, top at the end
    L, R,     \* merge's scratch buffers
    Lsrc, Rsrc, \* ghost: origin of each buffer element
    i, j, k,  \* merge's cursors
    nwrites,  \* ghost: writes made by the current merge's scan loop
    accessed, \* ghost: an element of A was read or written in this run
    touched,  \* ghost: the indices of A the latest merge read or wrote
    out,      \* results of the finished runs
    outsrc    \* ghost: src at the end of each finished run

vars == <<A0, entry, run, phase, A, src, stack, L, R, Lsrc, Rsrc, i, j, k,
          nwrites, accessed, touched, out, outsrc>>

\* size_t arithmetic
Wrap(x) == x % SizeMod

Top == stack[Len(stack)]
Pop == SubSeq(stack, 1, Len(stack) - 1)
SetTop(f) == [stack EXCEPT ![Len(stack)] = f]

Frame(fn, p, q, r, pc) == [fn |-> fn, p |-> p, q |-> q, r |-> r, pc |-> pc]

Identity(n) == [x \in 1..n |-> x]


\* ---- undefined behaviour: accesses outside a vector's elements ----------
\* the values a read of S[n] can yield when it does not fault
ReadOutcomes(S, n) ==
    IF n < Len(S) THEN {S[n + 1]}
    ELSE IF n < Len(S) + Slack THEN UBVals
    ELSE {}

\* the sequences a loop reading S[idx[1]], S[idx[2]], ... can collect
ReadSeqs(S, idx) ==
    LET bad == {n \in DOMAIN idx : idx[n] >= Len(S)}
    IN  {[n \in DOMAIN idx |-> IF n \in bad THEN g[n] ELSE S[idx[n] + 1]] :
            g \in [bad -> UBVals]}

\* ghost origins of the elements read: 0 for anything that is no element
SrcSeq(S, idx) ==
    [n \in DOMAIN idx |-> IF idx[n] < Len(S) THEN S[idx[n] + 1] ELSE 0]

\* A[n] = v; a write past the end that does not fault leaves A's elements alone
Store(S, n, v) == IF n < Len(S) THEN [S EXCEPT ![n + 1] = v] ELSE S

Crash ==
    /\ phase' = "crashed"
    /\ accessed' = TRUE
    /\ UNCHANGED <<A0, entry, run, A, src, stack, L, R, Lsrc, Rsrc, i, j, k,
                   nwrites, touched, out, outsrc>>

\* ---- the driver (main) --------------------------------------------------
Variants == {"sentinel", "lazy"}

\* "sort":  merge_sort(A, 0, A.size() - 1), as main calls it
\* "range": merge_sort(A, p, r) with p and r indices of A
\* "merge": merge(A, p, q, r) with p <= q < r indices of A
Entries(S) ==
       {[kind |-> "sort", first |-> f, p |-> 0, q |-> 0, r |-> Wrap(Len(S) - 1)] :
             f \in Variants}
    \cup {[kind |-> "range", first |-> f, p |-> p, q |-> 0, r |-> r] :
             f \in Variants, p \in 0..(Len(S) - 1), r \in 0..(Len(S) - 1)}
    \cup {e \in [kind : {"merge"}, first : Variants, p : 0..(Len(S) - 1),
                 q : 0..(Len(S) - 1), r : 0..(Len(S) - 1)] : e.p <= e.q /\ e.q < e.r}

\* run 3 repeats the sort on the sentinel variant's result
NumRuns == IF entry.kind = "sort" THEN 3 ELSE 2

\* which run used which variant
SentinelRun == IF entry.first = "sentinel" THEN 1 ELSE 2
LazyRun == IF entry.first = "lazy" THEN 1 ELSE 2
Variant(n) == IF n = LazyRun THEN "lazy" ELSE "sentinel"

Init ==
    /\ A0 \in UNION {[1..n -> Vals] : n \in 0..MaxLen}
    /\ entry \in Entries(A0)
    /\ run = 1
    /\ phase = "call"
    /\ A = A0
    /\ src = Identity(Len(A0))
    /\ stack = <<>>
    /\ L = <<>> /\ R = <<>> /\ Lsrc = <<>> /\ Rsrc = <<>>
    /\ i = 0 /\ j = 0 /\ k = 0
    /\ nwrites = 0
    /\ accessed = FALSE
    /\ touched = {}
    /\ out = <<>>
    /\ outsrc = <<>>

Call ==
    /\ phase = "call"
    /\ phase' = "running"
    /\ stack' = IF entry.kind = "merge"
                THEN <<Frame(IF Variant(run) = "lazy" THEN "merge_lazy" ELSE "merge",
                             entry.p, entry.q, entry.r, "setup")>>
                ELSE <<Frame(IF Variant(run) = "lazy" THEN "merge_sort_lazy"
                                                       ELSE "merge_sort",
                             entry.p, 0, entry.r, "test")>>
    /\ UNCHANGED <<A0, entry, run, A, src, L, R, Lsrc, Rsrc, i, j, k,
                   nwrites, accessed, touched, out, outsrc>>

Finish ==
    /\ phase = "running"
    /\ stack = <<>>
    /\ out' = Append(out, A)
    /\ outsrc' = Append(outsrc, src)
    /\ IF run < NumRuns
       THEN /\ run' = run + 1
            /\ phase' = "call"
            /\ A' = IF run = 1 THEN A0 ELSE out'[SentinelRun]
            /\ src' = Identity(Len(A0))
            /\ accessed' = FALSE
            /\ touched' = {}
       ELSE /\ phase' = "done"
            /\ UNCHANGED <<run, A, src, accessed, touched>>
    /\ UNCHANGED <<A0, entry, stack, L, R, Lsrc, Rsrc, i, j, k, nwrites>>

\* ---- merge_sort and merge_sort_lazy -------------------------------------
Sorts == {"merge_sort", "merge_sort_lazy"}
MergeOf(fn) == IF fn = "merge_sort" THEN "merge" ELSE "merge_lazy"

\* if (p < r)
Recurse(p, r) == p < r

\* a slip in the split point: (p + r + 1) / 2 rounds up and can reach r
MidRoundedUp(p, r) == Wrap(p + r + 1) \div 2

\* size_t q = (p + r) / 2;
Mid(p, r) == Wrap(p + r) \div 2

\* if (p < r) { q = (p + r) / 2; merge_sort(A, p, q);   -- or return
SortTest ==
    /\ phase = "running" /\ stack # <<>>
    /\ Top.fn \in Sorts /\ Top.pc = "test"
    /\ IF Recurse(Top.p, Top.r)
       THEN LET q == Mid(Top.p, Top.r)
            IN  stack' = Append(SetTop(Frame(Top.fn, Top.p, q, Top.r, "second")),
                                Frame(Top.fn, Top.p, 0, q, "test"))
       ELSE stack' = Pop
    /\ UNCHANGED <<A0, entry, run, phase, A, src, L, R, Lsrc, Rsrc, i, j, k,
                   nwrites, accessed, touched, out, outsrc>>

\* merge_sort(A, q+1, r);
SortSecond ==
    /\ phase = "running" /\ stack # <<>>
    /\ Top.fn \in Sorts /\ Top.pc = "second"
    /\ stack' = Append(SetTop(Frame(Top.fn, Top.p, Top.q, Top.r, "merge")),
                       Frame(Top.fn, Wrap(Top.q + 1), 0, Top.r, "test"))
    /\ UNCHANGED <<A0, entry, run, phase, A, src, L, R, Lsrc, Rsrc, i, j, k,
                   nwrites, accessed, touched, out, outsrc>>

\* merge(A, p, q, r);
SortMerge ==
    /\ phase = "running" /\ stack # <<>>
    /\ Top.fn \in Sorts /\ Top.pc = "merge"
    /\ stack' = Append(SetTop(Frame(Top.fn, Top.p, Top.q, Top.r, "ret")),
                       Frame(MergeOf(Top.fn), Top.p, Top.q, Top.r, "setup"))
    /\ touched' = {}
    /\ UNCHANGED <<A0, entry, run, phase, A, src, L, R, Lsrc, Rsrc, i, j, k,
                   nwrites, accessed, out, outsrc>>

\* the closing brace: return to the caller
SortRet ==
    /\ phase = "running" /\ stack # <<>>
    /\ Top.fn \in Sorts /\ Top.pc = "ret"
    /\ stack' = Pop
    /\ UNCHANGED <<A0, entry, run, phase, A, src, L, R, Lsrc, Rsrc, i, j, k,
                   nwrites, accessed, touched, out, outsrc>>

\* ---- merge (the sentinel variant) --------------------------------------
N1(p, q) == Wrap(q - p + 1)
N2(q, r) == Wrap(r - q)

\* the indices of A the two copy loops read: A[p+i], A[q+i+1]
LeftIdx(p, q) == [n \in 1..N1(p, q) |-> Wrap(p + (n - 1))]
RightIdx(q, r) == [n \in 1..N2(q, r) |-> Wrap(q + (n - 1) + 1)]

\* the sentinel stored in L[n1] and R[n2]
Sentinel == INT_MAX

\* lines 12-31: allocate L and R, copy the halves, store the sentinels
MergeSetup ==
    /\ phase = "running" /\ stack # <<>>
    /\ Top.fn = "merge" /\ Top.pc = "setup"
    /\ LET li == LeftIdx(Top.p, Top.q)
           ri == RightIdx(Top.q, Top.r)
           all == {li[n] : n \in DOMAIN li} \cup {ri[n] : n \in DOMAIN ri}
       IN  \/ /\ \E n \in all : n >= Len(A)
              /\ Crash
           \/ /\ \A n \in all : n < Len(A) + Slack
              /\ \E lv \in ReadSeqs(A, li), rv \in ReadSeqs(A, ri) :
                    /\ L' = Append(lv, Sentinel)
                    /\ R' = Append(rv, Sentinel)
              /\ Lsrc' = Append(SrcSeq(src, li), 0)
              /\ Rsrc' = Append(SrcSeq(src, ri), 0)
              /\ i' = 0 /\ j' = 0 /\ k' = Top.p
              /\ nwrites' = 0
              /\ accessed' = TRUE
              /\ touched' = all
              /\ stack' = SetTop(Frame("merge", Top.p, Top.q, Top.r, "scan"))
              /\ UNCHANGED <<A0, entry, run, phase, A, src, out, outsrc>>

\* a slip in the loop bound: one iteration too many
ScanContinuesPastEnd(kk, r) == kk <= r + 1

\* for (...; k <= r; ...)
ScanContinues(kk, r) == kk <= r

\* if (L[i] <= R[j])
TakeLeft(lv, rv) == lv <= rv

\* lines 33-40: one iteration of the scan loop
MergeScan ==
    /\ phase = "running" /\ stack # <<>>
    /\ Top.fn = "merge" /\ Top.pc = "scan"
    /\ ScanContinues(k, Top.r)
    /\ \/ /\ i >= Len(L) \/ j >= Len(R) \/ k >= Len(A)
          /\ Crash
       \/ /\ k < Len(A) + Slack
          /\ \E lv \in ReadOutcomes(L, i), rv \in ReadOutcomes(R, j) :
                IF TakeLeft(lv, rv)
                THEN /\ A' = Store(A, k, lv)
                     /\ src' = Store(src, k, IF i < Len(Lsrc) THEN Lsrc[i + 1] ELSE 0)
                     /\ i' = i + 1
                     /\ j' = j
                ELSE /\ A' = Store(A, k, rv)
                     /\ src' = Store(src, k, IF j < Len(Rsrc) THEN Rsrc[j + 1] ELSE 0)
                     /\ j' = j + 1
                     /\ i' = i
          /\ k' = Wrap(k + 1)
          /\ nwrites' = nwrites + 1
          /\ accessed' = TRUE
          /\ touched' = touched \cup {k}
          /\ UNCHANGED <<A0, entry, run, phase, stack, L, R, Lsrc, Rsrc, out, outsrc>>

\* lines 41-42: the loop ends, L and R are destroyed, merge returns
MergeRet ==
    /\ phase = "running" /\ stack # <<>>
    /\ Top.fn = "merge" /\ Top.pc = "scan"
    /\ ~ScanContinues(k, Top.r)
    /\ stack' = Pop
    /\ L' = <<>> /\ R' = <<>> /\ Lsrc' = <<>> /\ Rsrc' = <<>>
    /\ i' = 0 /\ j' = 0 /\ k' = 0
    /\ nwrites' = 0
    /\ UNCHANGED <<A0, entry, run, phase, A, src, accessed, touched, out, outsrc>>

\* ---- merge_lazy ----------------------------------------------------------
\* std::merge(first1, last1, first2, last2, out) over the values V: the order
\* in which the positions a..lastA and b..lastB are written to the output.
\* The second range's head is taken only when it is less than the first's.
RECURSIVE StdMerge(_, _, _, _, _)
StdMerge(V, a, lastA, b, lastB) ==
    IF a > lastA THEN [n \in 1..(lastB - b + 1) |-> b + n - 1]
    ELSE IF b > lastB THEN [n \in 1..(lastA - a + 1) |-> a + n - 1]
    ELSE IF V[b] < V[a] THEN <<b>> \o StdMerge(V, a, lastA, b + 1, lastB)
    ELSE <<a>> \o StdMerge(V, a + 1, lastA, b, lastB)

\* lines 60-69: merge [p, q] and [q+1, r] into B, copy B back over [p, r]
MergeLazy ==
    /\ phase = "running" /\ stack # <<>>
    /\ Top.fn = "merge_lazy"
    /\ LET p == Top.p
           q == Top.q
           r == Top.r
           bad == {n \in p..r : n >= Len(A)}
       IN  \/ /\ bad # {}
              /\ Crash
           \/ /\ \A n \in bad : n < Len(A) + Slack
              /\ \E g \in [bad -> UBVals] :
                    LET V == [n \in p..r |-> IF n \in bad THEN g[n] ELSE A[n + 1]]
                        T == [n \in p..r |-> IF n \in bad THEN 0 ELSE src[n + 1]]
                        B == StdMerge(V, p, q, q + 1, r)
                    IN  /\ A' = [n \in 1..Len(A) |->
                                    IF n - 1 \in p..r THEN V[B[n - p]] ELSE A[n]]
                        /\ src' = [n \in 1..Len(A) |->
                                    IF n - 1 \in p..r THEN T[B[n - p]] ELSE src[n]]
              /\ accessed' = TRUE
              /\ touched' = p..r
              /\ stack' = Pop
              /\ UNCHANGED <<A0, entry, run, phase, L, R, Lsrc, Rsrc, i, j, k,
                             nwrites, out, outsrc>>

\* ---- the specification ---------------------------------------------------
Next ==
    \/ Call
    \/ Finish
    \/ SortTest
    \/ SortSecond
    \/ SortMerge
    \/ SortRet
    \/ MergeSetup
    \/ MergeScan
    \/ MergeRet
    \/ MergeLazy

Spec == Init /\ [][Next]_vars

\* the program is a single thread that runs until it returns or faults
FairSpec == Spec /\ WF_vars(Next)

\* ---- vocabulary of the properties ---------------------------------------
Finished(n) == Len(out) >= n

\* S[p..r] (0-based, inclusive) is in non-decreasing order
SortedRange(S, p, r) ==
    \A a \in p..r, b \in p..r : a < b => S[a + 1] <= S[b + 1]

Sorted(S) == SortedRange(S, 0, Len(S) - 1)

Count(S, p, r, v) == Cardinality({n \in p..r : S[n + 1] = v})

\* S[p..r] and T[p..r] hold the same multiset of values
SameValues(S, T, p, r) ==
    \A n \in p..r : /\ Count(S, p, r, S[n + 1]) = Count(T, p, r, S[n + 1])
                    /\ Count(S, p, r, T[n + 1]) = Count(T, p, r, T[n + 1])

IsPermutation(S, T) ==
    /\ Len(S) = Len(T)
    /\ SameValues(S, T, 0, Len(S) - 1)

\* the driver's call has its indices inside A0
InBounds == entry.p < Len(A0) /\ entry.r < Len(A0)

\* the input of a merge call has both halves sorted
HalvesSorted ==
    /\ SortedRange(A0, entry.p, entry.q)
    /\ SortedRange(A0, entry.q + 1, entry.r)

\* the sentinel variant faulted
SentinelCrashed == phase = "crashed" /\ Variant(run) = "sentinel"

InMerge == phase = "running" /\ stack # <<>> /\ Top.fn = "merge" /\ Top.pc = "scan"

\* ---- C1 ------------------------------------------------------------------
\* C1: for every vector S (the empty one and any int values included),
\* merge_sort(S, 0, S.size() - 1) returns and leaves a permutation of S in
\* non-decreasing order.
C1_SortYieldsSortedPermutation ==
    entry.kind = "sort" =>
        /\ ~SentinelCrashed
        /\ Finished(SentinelRun) =>
              /\ Sorted(out[SentinelRun])
              /\ IsPermutation(out[SentinelRun], A0)

\* ---- C2 ------------------------------------------------------------------
\* C2: after merge_sort(A, low, high) or merge(A, low, mid, high) completes
\* on in-bounds indices, A has its length and every element outside
\* [low, high] has the value it had before the call.
C2_OutsideRangeUntouched ==
    (InBounds /\ Finished(SentinelRun)) =>
        /\ Len(out[SentinelRun]) = Len(A0)
        /\ \A n \in 0..(Len(A0) - 1) :
              (n < entry.p \/ n > entry.r) => out[SentinelRun][n + 1] = A0[n + 1]

\* a call on an inner range that reordered it has returned
C2_Witness ==
    /\ entry.kind \in {"range", "merge"}
    /\ entry.p > 0 /\ entry.r < Len(A0) - 1
    /\ Finished(SentinelRun)
    /\ out[SentinelRun] # A0

\* ---- C3 ------------------------------------------------------------------
\* C3: merge(A, low, mid, high) on in-bounds low <= mid < high with both
\* halves sorted returns and leaves A[low..high] sorted and holding the
\* values it held before.
C3_MergeMergesSortedHalves ==
    (entry.kind = "merge" /\ HalvesSorted) =>
        /\ ~SentinelCrashed
        /\ Finished(SentinelRun) =>
              /\ SortedRange(out[SentinelRun], entry.p, entry.r)
              /\ SameValues(out[SentinelRun], A0, entry.p, entry.r)

\* ---- C4 ------------------------------------------------------------------
\* C4: sort on the empty and on a one-element vector returns without reading
\* or writing an element, and leaves the vector as it was.
C4_EmptyAndSingletonAreNoOps ==
    (entry.kind = "sort" /\ Len(A0) <= 1) =>
        /\ phase # "crashed"
        /\ ~accessed
        /\ A = A0

\* ---- C5 ------------------------------------------------------------------
\* C5: sort is stable: its output holds the input's elements, and elements
\* with equal keys keep the relative order they had in the input.
C5_SortIsStable ==
    (entry.kind = "sort" /\ Finished(SentinelRun)) =>
        LET o == out[SentinelRun]
            t == outsrc[SentinelRun]
        IN  /\ IsPermutation(o, A0)
            /\ \A a \in 1..Len(o), b \in 1..Len(o) :
                  (a < b /\ o[a] = o[b] /\ t[a] # 0 /\ t[b] # 0) => t[a] < t[b]

\* ---- C6 ------------------------------------------------------------------
\* C6: merge and merge_lazy (on sorted halves), and merge_sort and
\* merge_sort_lazy, leave A in the same final state.
C6_VariantsAgree ==
    (Finished(2) /\ (entry.kind = "merge" => HalvesSorted)) => out[1] = out[2]

\* ---- C7 ------------------------------------------------------------------
\* C7: sorting twice gives what sorting once gives (run 3 sorts the result of
\* the sentinel variant's run again).
C7_SortIsIdempotent ==
    (entry.kind = "sort" /\ Finished(3)) => out[3] = out[SentinelRun]

\* ---- C8 ------------------------------------------------------------------
\* C8: in merge (called on sorted halves), every read of L[i] and R[j] has
\* i <= n1 and j <= n2, and the scan loop ends after exactly high - low + 1
\* writes, whatever ints A holds.
C8_ScanStaysInsideBuffers ==
    (InMerge /\ (entry.kind = "merge" => HalvesSorted)) =>
        IF ScanContinues(k, Top.r)
        THEN i <= N1(Top.p, Top.q) /\ j <= N2(Top.q, Top.r)
        ELSE nwrites = Top.r - Top.p + 1

\* ---- C9 ------------------------------------------------------------------
\* C9: every call of merge_sort or merge_sort_lazy with in-bounds indices
\* eventually returns (the driver gets both variants' results).
C9_InBoundsSortReturns ==
    (entry.kind \in {"sort", "range"} /\ InBounds) => <>Finished(2)

\* ---- C10 -----------------------------------------------------------------
\* C10: a merge_sort activation that passed its test low < high has
\* low <= mid < high; the call it makes is on [low, mid] or [mid+1, high], a
\* non-empty range inside its own; and the merge it calls reads and writes
\* only indices of [low, high].
C10_SplitInsideRange ==
    \A n \in 1..Len(stack) :
        LET f == stack[n]
        IN  (f.fn \in Sorts /\ f.pc # "test") =>
               /\ f.p <= f.q /\ f.q < f.r
               /\ (n < Len(stack) /\ f.pc = "second") =>
                     (stack[n + 1].p = f.p /\ stack[n + 1].r = f.q)
               /\ (n < Len(stack) /\ f.pc = "merge") =>
                     (stack[n + 1].p = f.q + 1 /\ stack[n + 1].r = f.r)
               /\ n < Len(stack) =>
                     /\ f.p <= stack[n + 1].p
                     /\ stack[n + 1].p <= stack[n + 1].r
                     /\ stack[n + 1].r <= f.r
               /\ (n >= Len(stack) - 1 /\ f.pc = "ret") =>
                     \A x \in touched : f.p <= x /\ x <= f.r

\* a nested merge_sort call is merging its two halves
C10_Witness ==
    /\ InMerge
    /\ Len(stack) >= 3
    /\ Top.p > 0
    /\ touched # {}
    /\ k > Top.q

====
